---- MODULE Spec2Model ----
(***************************************************************************)
(* Model of the collaborative canvas of src/components/SketchCanvas.tsx.   *)
(*                                                                         *)
(* Each client runs one SketchCanvas component.  Its element view is the   *)
(* result of db.useQuery({elements: {}}): the last query result the        *)
(* backing store delivered to it, with the client's own transactions that  *)
(* are not yet acknowledged applied on top.  The handlers addElement,      *)
(* moveElement and clearCanvas issue one db.transact each; the backing     *)
(* store applies or rejects each transaction and broadcasts the resulting  *)
(* state to every client.                                                  *)
(*                                                                         *)
(* The component holds no cache, queue or conflict rule of its own: all    *)
(* of that is the behaviour of db (InstantDB), which the model takes as    *)
(* follows.  update(attrs) merges attrs into the entity and creates it     *)
(* when it is missing; delete() removes the entity and ignores a missing   *)
(* one; a transaction is applied optimistically to the local query result  *)
(* until the store acknowledges it, and is withdrawn from it when the      *)
(* store rejects it, which also rejects the promise of db.transact;        *)
(* transactions of one client reach the store in the order issued, and a   *)
(* client may skip intermediate store states.  Init is the state once the  *)
(* first query result has loaded.                                          *)
(***************************************************************************)
EXTENDS Integers, Sequences, FiniteSets, TLC

\* ---------------------------------------------------------------- bounds
\* Total number of transactions issued by all clients together.
MaxTx == 2
\* Largest coordinate a drag may reach.
MaxCoord == 10

Clients == {"c1", "c2"}

\* ------------------------------------------------------ program constants
COLORS == <<"#007AFF", "#FF3B30", "#34C759", "#5856D6">>
Tools == {"rectangle", "circle", "triangle"}

\* The toolbar buttons each user presses: the first picks among the tools,
\* the second among the first two colors.
ToolsOf(c) == IF c = "c1" THEN Tools ELSE {"rectangle"}
PaletteOf(c) == IF c = "c2" THEN {COLORS[1], COLORS[2]} ELSE {COLORS[1]}

\* Dimensions.get("window").height
screenHeight == 800
\* Height of the toolbar strip that canvasTapGesture ignores.
ToolbarHeight == 120

\* Tap positions <<x, y>>; the second lies in the toolbar area.
TapPoints == {<<0, 0>>, <<5, 700>>}
\* Drag translations <<translationX, translationY>>.
Translations == {<<5, 5>>, <<10, 10>>}

NoId == 0
ElementIds == 1..(MaxTx + 1)

VARIABLES
    log,                \* backing store: sequence of [st, tx], last is current
    seen,               \* seen[c]: index in log of the last state delivered
    pending,            \* pending[c]: client's unacknowledged transactions
    idsMade,            \* number of ids generated by id() so far
    issued,             \* number of transactions issued; also the clock
    selectedTool,       \* useState per client
    selectedColor,      \* useState per client
    selectedElementId,  \* useState per client
    dragging,           \* dragging[c]: element under an active pan, or NoId
    translate,          \* translate[c]: <<translateX, translateY>> of it
    errorLog,           \* console.error calls made by the catch handlers
    unhandled           \* promise rejections no handler caught

vars == <<log, seen, pending, idsMade, issued, selectedTool, selectedColor,
          selectedElementId, dragging, translate, errorLog, unhandled>>

\* ------------------------------------------------------- backing store
\* A store state maps each live element id to its attributes; an attribute
\* that was never written is absent from the element's domain.
EmptyStore == [i \in {} |-> 0]
NoAttrs == [a \in {} |-> 0]

\* db.tx.elements[id].update(attrs): merges attrs into the entity, creating
\* the entity when there is none.
Update(st, eid, attrs) ==
    LET old == IF eid \in DOMAIN st THEN st[eid] ELSE NoAttrs
        new == [a \in DOMAIN old \cup DOMAIN attrs |->
                   IF a \in DOMAIN attrs THEN attrs[a] ELSE old[a]]
    IN  [i \in DOMAIN st \cup {eid} |-> IF i = eid THEN new ELSE st[i]]

\* Faulty variant: a delete of an id the store does not hold leaves an empty entity.
Delete_Upsert(st, ids) ==
    [i \in (DOMAIN st \ ids) \cup (ids \ DOMAIN st) |->
        IF i \in DOMAIN st THEN st[i] ELSE NoAttrs]

\* db.tx.elements[id].delete() for each id of a list: removes the entities
\* that exist, ignores the others.
Delete(st, ids) == [i \in DOMAIN st \ ids |-> st[i]]

\* One transaction applied to a store state (at the backing store, or
\* optimistically on a client).
ApplyTx(st, tx) ==
    IF tx.src = "clear" THEN Delete(st, tx.ids) ELSE Update(st, tx.id, tx.attrs)

RECURSIVE ApplyAll(_, _)
ApplyAll(st, txs) ==
    IF txs = <<>> THEN st ELSE ApplyAll(ApplyTx(st, Head(txs).tx), Tail(txs))

Store == log[Len(log)].st

\* Faulty variant: the query result leaves out the pending transactions.
Elements_Delivered(c) == log[seen[c]].st

\* const { data } = db.useQuery({elements: {}}); elements = data?.elements
\* The query result: the delivered state with the pending transactions on top.
Elements(c) == ApplyAll(log[seen[c]].st, pending[c])

\* Faulty variant: the next id is taken from the number of elements in the store.
id_StoreCount == Cardinality(DOMAIN Store) + 1

\* id() of @instantdb/react-native: a fresh identifier.
id == idsMade + 1

\* ------------------------------------------------------------ transactions
AddTx(eid, tool, x, y, color, now) ==
    [src |-> "add", id |-> eid, ids |-> {},
     attrs |-> [type |-> tool, x |-> x, y |-> y, color |-> color,
                width |-> IF tool = "rectangle" THEN 80 ELSE 60,
                height |-> IF tool = "rectangle" THEN 60 ELSE 60,
                createdAt |-> now]]

MoveTx(eid, x, y) ==
    [src |-> "move", id |-> eid, ids |-> {}, attrs |-> [x |-> x, y |-> y]]

ClearTx(elementIds) ==
    [src |-> "clear", id |-> NoId, ids |-> elementIds, attrs |-> NoAttrs]

\* db.transact(tx): queued as a pending mutation, not yet at the store.
Transact(c, tx) == Append(pending[c], [tx |-> tx, at |-> 0])

\* A MovableElement unmounts when its element leaves the view: an active pan
\* on it ends without onEnd. The effect on [element.x, element.y] resets the
\* translate values when the position of the element changes.
PanAfter(c, old, new) ==
    LET e == dragging[c] IN
    IF e = NoId \/ e \in DOMAIN new
    THEN /\ dragging' = dragging
         /\ translate' =
              IF e # NoId /\ old[e] # new[e] /\
                 (("x" \in DOMAIN old[e]) # ("x" \in DOMAIN new[e]) \/
                  ("x" \in DOMAIN old[e] /\
                     (old[e].x # new[e].x \/ old[e].y # new[e].y)))
              THEN [translate EXCEPT ![c] = <<0, 0>>]
              ELSE translate
    ELSE /\ dragging' = [dragging EXCEPT ![c] = NoId]
         /\ translate' = [translate EXCEPT ![c] = <<0, 0>>]

\* ------------------------------------------------------------------ Init
\* The backing store is persistent: when the clients start it holds nothing,
\* or one rectangle that an earlier session added at (0, 0).
SeedTx == AddTx(1, "rectangle", 0, 0, COLORS[1], 0)

Init ==
    /\ \/ /\ log = <<[st |-> EmptyStore, tx |-> ClearTx({})]>>
          /\ idsMade = 0
       \/ /\ log = <<[st |-> ApplyTx(EmptyStore, SeedTx), tx |-> SeedTx]>>
          /\ idsMade = 1
    /\ seen = [c \in Clients |-> 1]
    /\ pending = [c \in Clients |-> <<>>]
    /\ issued = 0
    /\ selectedTool = [c \in Clients |-> "rectangle"]
    /\ selectedColor = [c \in Clients |-> "#007AFF"]
    /\ selectedElementId = [c \in Clients |-> NoId]
    /\ dragging = [c \in Clients |-> NoId]
    /\ translate = [c \in Clients |-> <<0, 0>>]
    /\ errorLog = [c \in Clients |-> 0]
    /\ unhandled = [c \in Clients |-> 0]

\* ------------------------------------------------------------- UI actions
SetSelectedTool(c, tool) ==
    /\ selectedTool[c] # tool
    /\ selectedTool' = [selectedTool EXCEPT ![c] = tool]
    /\ UNCHANGED <<log, seen, pending, idsMade, issued, selectedColor,
                   selectedElementId, dragging, translate, errorLog, unhandled>>

SetSelectedColor(c, color) ==
    /\ selectedColor[c] # color
    /\ selectedColor' = [selectedColor EXCEPT ![c] = color]
    /\ UNCHANGED <<log, seen, pending, idsMade, issued, selectedTool,
                   selectedElementId, dragging, translate, errorLog, unhandled>>

addElement(c, x, y) ==
    /\ issued < MaxTx
    /\ LET elementId == id IN
       /\ idsMade' = idsMade + 1
       /\ issued' = issued + 1
       /\ pending' = [pending EXCEPT ![c] =
              Transact(c, AddTx(elementId, selectedTool[c], x, y,
                                selectedColor[c], issued + 1))]
       /\ selectedElementId' = [selectedElementId EXCEPT ![c] = elementId]
    /\ UNCHANGED <<log, seen, selectedTool, selectedColor, dragging,
                   translate, errorLog, unhandled>>

\* canvasTapGesture.onEnd
CanvasTap(c, p) ==
    IF p[2] < screenHeight - ToolbarHeight
    THEN addElement(c, p[1], p[2])
    ELSE UNCHANGED vars

\* Faulty variant: the move also writes the selected tool as the element's type.
moveElement_WithTool(c, elementId, x, y) ==
    /\ issued < MaxTx
    /\ issued' = issued + 1
    /\ pending' = [pending EXCEPT ![c] = Transact(c,
          [src |-> "move", id |-> elementId, ids |-> {},
           attrs |-> [type |-> selectedTool[c], x |-> x, y |-> y]])]

moveElement(c, elementId, x, y) ==
    /\ issued < MaxTx
    /\ issued' = issued + 1
    /\ pending' = [pending EXCEPT ![c] = Transact(c, MoveTx(elementId, x, y))]

\* panGesture.onStart: runOnJS(onSelect)(element.id), that is selectElement.
\* The scale animation is display only.
PanStart(c, e) ==
    /\ dragging[c] = NoId
    /\ e \in DOMAIN Elements(c)
    /\ dragging' = [dragging EXCEPT ![c] = e]
    /\ selectedElementId' = [selectedElementId EXCEPT ![c] = e]
    /\ UNCHANGED <<log, seen, pending, idsMade, issued, selectedTool,
                   selectedColor, translate, errorLog, unhandled>>

\* Faulty variant: every update of the pan writes the position to the store.
PanUpdate_Writes(c, t) ==
    /\ dragging[c] # NoId
    /\ translate[c] # t
    /\ translate' = [translate EXCEPT ![c] = t]
    /\ issued < MaxTx
    /\ issued' = issued + 1
    /\ pending' = [pending EXCEPT ![c] = Transact(c,
          MoveTx(dragging[c], Elements(c)[dragging[c]].x + t[1],
                 Elements(c)[dragging[c]].y + t[2]))]
    /\ UNCHANGED <<log, seen, idsMade, selectedTool, selectedColor,
                   selectedElementId, dragging, errorLog, unhandled>>

\* panGesture.onUpdate
PanUpdate(c, t) ==
    /\ dragging[c] # NoId
    /\ translate[c] # t
    /\ translate' = [translate EXCEPT ![c] = t]
    /\ UNCHANGED <<log, seen, pending, idsMade, issued, selectedTool,
                   selectedColor, selectedElementId, dragging, errorLog,
                   unhandled>>

\* panGesture.onEnd: finalX = element.x + event.translationX, and the same
\* for y; the end event carries the translation of the last update. The
\* optimistic write changes element.x and element.y, so the effect resets
\* the translate values.
PanEnd(c) ==
    /\ dragging[c] # NoId
    /\ translate[c] # <<0, 0>>
    /\ LET t == translate[c]
           element == Elements(c)[dragging[c]] IN
       /\ "x" \in DOMAIN element
       /\ element.x + t[1] <= MaxCoord
       /\ element.y + t[2] <= MaxCoord
       /\ moveElement(c, dragging[c], element.x + t[1], element.y + t[2])
    /\ dragging' = [dragging EXCEPT ![c] = NoId]
    /\ translate' = [translate EXCEPT ![c] = <<0, 0>>]
    /\ UNCHANGED <<log, seen, idsMade, selectedTool, selectedColor,
                   selectedElementId, errorLog, unhandled>>

\* Faulty variant: Clear deletes every id there is, not the ids of the view.
clearCanvas_EveryId(c) ==
    /\ issued < MaxTx
    /\ issued' = issued + 1
    /\ pending' = [pending EXCEPT ![c] = Transact(c, ClearTx(ElementIds))]
    /\ PanAfter(c, Elements(c), EmptyStore)
    /\ selectedElementId' = [selectedElementId EXCEPT ![c] = NoId]
    /\ UNCHANGED <<log, seen, idsMade, selectedTool, selectedColor,
                   errorLog, unhandled>>

clearCanvas(c) ==
    LET elements == Elements(c)
        elementIds == DOMAIN elements
    IN
    /\ IF elementIds # {}
       THEN /\ issued < MaxTx
            /\ issued' = issued + 1
            /\ pending' = [pending EXCEPT ![c] = Transact(c, ClearTx(elementIds))]
            /\ PanAfter(c, elements, EmptyStore)
       ELSE UNCHANGED <<issued, pending, dragging, translate>>
    /\ selectedElementId' = [selectedElementId EXCEPT ![c] = NoId]
    /\ UNCHANGED <<log, seen, idsMade, selectedTool, selectedColor,
                   errorLog, unhandled>>

\* ---------------------------------------------------------- backing store
FirstUnsent(c) ==
    IF \E k \in 1..Len(pending[c]) : pending[c][k].at = 0
    THEN CHOOSE k \in 1..Len(pending[c]) :
            /\ pending[c][k].at = 0
            /\ \A j \in 1..(k - 1) : pending[c][j].at # 0
    ELSE 0

\* The store accepts the client's next transaction and applies it.
ServerApply(c) ==
    LET k == FirstUnsent(c) IN
    /\ k # 0
    /\ log' = Append(log, [st |-> ApplyTx(Store, pending[c][k].tx),
                           tx |-> pending[c][k].tx])
    /\ pending' = [pending EXCEPT ![c][k].at = Len(log) + 1]
    /\ UNCHANGED <<seen, idsMade, issued, selectedTool, selectedColor,
                   selectedElementId, dragging, translate, errorLog, unhandled>>

\* Faulty variant: no transaction has a catch handler.
OnRejected_NoCatch(c, tx) ==
    /\ unhandled' = [unhandled EXCEPT ![c] = @ + 1]
    /\ errorLog' = errorLog

\* .catch((error) => console.error(...)) of addElement and moveElement;
\* clearCanvas attaches no handler to its promise.
OnRejected(c, tx) ==
    IF tx.src \in {"add", "move"}
    THEN /\ errorLog' = [errorLog EXCEPT ![c] = @ + 1]
         /\ unhandled' = unhandled
    ELSE /\ unhandled' = [unhandled EXCEPT ![c] = @ + 1]
         /\ errorLog' = errorLog

RemoveAt(s, k) == SubSeq(s, 1, k - 1) \o SubSeq(s, k + 1, Len(s))

\* The transmission of the client's next transaction fails for good: the
\* pending mutation is dropped and the promise of db.transact rejects.
ServerReject(c) ==
    LET k == FirstUnsent(c) IN
    /\ k # 0
    /\ pending' = [pending EXCEPT ![c] = RemoveAt(@, k)]
    /\ OnRejected(c, pending[c][k].tx)
    /\ PanAfter(c, Elements(c),
                ApplyAll(log[seen[c]].st, RemoveAt(pending[c], k)))
    /\ UNCHANGED <<log, seen, idsMade, issued, selectedTool, selectedColor,
                   selectedElementId>>

Unacked(s, n) == SelectSeq(s, LAMBDA m : m.at = 0 \/ m.at > n)

\* Faulty variant: a delivered state overwrites the client's pending transactions.
Deliver_Overwrite(c, n) ==
    /\ seen[c] < n
    /\ n <= Len(log)
    /\ seen' = [seen EXCEPT ![c] = n]
    /\ pending' = [pending EXCEPT ![c] = <<>>]
    /\ PanAfter(c, Elements(c), log[n].st)
    /\ UNCHANGED <<log, idsMade, issued, selectedTool, selectedColor,
                   selectedElementId, errorLog, unhandled>>

\* The store delivers the state after its n-th transaction to client c, which
\* also acknowledges the client's transactions applied up to there.
Deliver(c, n) ==
    /\ seen[c] < n
    /\ n <= Len(log)
    /\ seen' = [seen EXCEPT ![c] = n]
    /\ pending' = [pending EXCEPT ![c] = Unacked(@, n)]
    /\ PanAfter(c, Elements(c), ApplyAll(log[n].st, Unacked(pending[c], n)))
    /\ UNCHANGED <<log, idsMade, issued, selectedTool, selectedColor,
                   selectedElementId, errorLog, unhandled>>

\* The toolbar buttons.
ToolbarNext ==
    \/ \E c \in Clients : \E tool \in ToolsOf(c) : SetSelectedTool(c, tool)
    \/ \E c \in Clients : \E color \in PaletteOf(c) : SetSelectedColor(c, color)

\* The canvas gestures, the Clear button and the backing store.
CanvasNext ==
    \/ \E c \in Clients, p \in TapPoints : CanvasTap(c, p)
    \/ \E c \in Clients, e \in ElementIds : PanStart(c, e)
    \/ \E c \in Clients, t \in Translations : PanUpdate(c, t)
    \/ \E c \in Clients : PanEnd(c)
    \/ \E c \in Clients : clearCanvas(c)
    \/ \E c \in Clients : ServerApply(c)
    \/ \E c \in Clients : ServerReject(c)
    \/ \E c \in Clients, n \in 2..(MaxTx + 1) : Deliver(c, n)

Next == ToolbarNext \/ CanvasNext

Spec == Init /\ [][Next]_vars

\* The canvas with the toolbar left as it starts (rectangle, first color).
CanvasSpec == Init /\ [][CanvasNext]_vars

\* ------------------------------------------------- fairness for liveness
\* The backing store eventually answers every transaction it is sent and
\* eventually delivers every state to every subscribed client.
FairSpec ==
    /\ CanvasSpec
    /\ \A c \in Clients : WF_vars(ServerApply(c) \/ ServerReject(c))
    /\ \A c \in Clients : WF_vars(\E n \in 2..(MaxTx + 1) : Deliver(c, n))

\* ------------------------------------------------------ step recognisers
Last(s) == s[Len(s)]
\* Client c issued a transaction in this step.
Issues(c) == Len(pending'[c]) = Len(pending[c]) + 1
\* The backing store applied a transaction in this step.
Applies == Len(log') = Len(log) + 1
\* A transaction of client c was rejected in this step.
Rejects(c) == seen' = seen /\ Len(pending'[c]) = Len(pending[c]) - 1
\* A pan on client c started or moved in this step.
PanStartsOrUpdates(c) ==
    /\ dragging'[c] # NoId
    /\ \/ dragging[c] = NoId
       \/ translate'[c] # translate[c] /\ translate'[c] # <<0, 0>>
\* A pan on client c ended with onEnd in this step (its element stays).
PanEnds(c) ==
    /\ dragging[c] # NoId
    /\ dragging'[c] = NoId
    /\ dragging[c] \in DOMAIN Elements(c)'
Quiescent ==
    \A c \in Clients : pending[c] = <<>> /\ seen[c] = Len(log)
Required == {"type", "x", "y", "color"}

\* ---------------------------------------------------------------- C1
NoFailure == \A c \in Clients : errorLog[c] = 0 /\ unhandled[c] = 0

\* C1: after any interleaving of adds, moves, clears and deliveries (no
\* transaction having failed), every element in the backing store and in
\* every client's element view has type, x, y and color defined.
C1_AllFieldsDefined ==
    NoFailure =>
       /\ \A i \in DOMAIN Store : Required \subseteq DOMAIN Store[i]
       /\ \A c \in Clients : \A i \in DOMAIN Elements(c) :
             Required \subseteq DOMAIN Elements(c)[i]

\* ---------------------------------------------------------------- C2
\* C2: a clear issues one transaction that deletes exactly the ids in the
\* clearing client's view when Clear is pressed, and when the store applies
\* it every element outside that list stays as it was.
C2_ClearDeletesListedIds ==
    [][ /\ \A c \in Clients :
            (Issues(c) /\ Last(pending'[c]).tx.src = "clear") =>
               /\ Last(pending'[c]).tx.ids = DOMAIN Elements(c)
               /\ pending'[c] = Append(pending[c], Last(pending'[c]))
               /\ issued' = issued + 1
        /\ (Applies /\ Last(log').tx.src = "clear") =>
               /\ DOMAIN Store' = DOMAIN Store \ Last(log').tx.ids
               /\ \A i \in DOMAIN Store' : Store'[i] = Store[i] ]_vars

\* A clear was applied and an element created after its id list was taken
\* is still in the store.
C2_Witness ==
    /\ Len(log) >= 3
    /\ Last(log).tx.src = "clear"
    /\ log[Len(log) - 1].tx.src = "add"
    /\ log[Len(log) - 1].tx.id \in DOMAIN Store
    /\ Last(log).tx.ids # {}

\* ---------------------------------------------------------------- C3
\* Transaction tx touches element e.
Touches(tx, e) == tx.id = e \/ e \in tx.ids

\* While a move of an element is the last transaction client c has pending
\* on it, c's view shows the element at the move's target; with nothing
\* pending on the element the view shows the delivered value.
PendingMoveShown(c) ==
    \A view \in {Elements(c)} :
    LET delivered == log[seen[c]].st
        p == pending[c]
    IN
    /\ \A k \in 1..Len(p) :
          (/\ p[k].tx.src = "move"
           /\ \A j \in (k + 1)..Len(p) : ~Touches(p[j].tx, p[k].tx.id))
          => /\ p[k].tx.id \in DOMAIN view
             /\ view[p[k].tx.id].x = p[k].tx.attrs.x
             /\ view[p[k].tx.id].y = p[k].tx.attrs.y
    /\ \A e \in ElementIds :
          (\A k \in 1..Len(p) : ~Touches(p[k].tx, e)) =>
             /\ (e \in DOMAIN view) = (e \in DOMAIN delivered)
             /\ e \in DOMAIN view => view[e] = delivered[e]

AppliedAdds == {k \in 1..Len(log) : log[k].tx.src = "add"}
UnsentAdds ==
    {<<c, k>> \in Clients \X (1..MaxTx) :
        k <= Len(pending[c]) /\ pending[c][k].at = 0
                             /\ pending[c][k].tx.src = "add"}
ClearedAfter(k) ==
    \E j \in (k + 1)..Len(log) :
        log[j].tx.src = "clear" /\ log[k].tx.id \in log[j].tx.ids

\* C4: elements added by different calls of addElement have distinct ids, and
\* once everything is delivered every added element that no clear deleted is
\* in every client's view with the type it was added with.
C4_ConcurrentAdds ==
    /\ \A k1, k2 \in AppliedAdds : k1 # k2 => log[k1].tx.id # log[k2].tx.id
    /\ \A p1, p2 \in UnsentAdds :
          p1 # p2 => pending[p1[1]][p1[2]].tx.id # pending[p2[1]][p2[2]].tx.id
    /\ \A k \in AppliedAdds : \A p \in UnsentAdds :
          log[k].tx.id # pending[p[1]][p[2]].tx.id
    /\ Quiescent =>
          \A k \in AppliedAdds : ~ClearedAfter(k) =>
             \A c \in Clients :
                /\ log[k].tx.id \in DOMAIN Elements(c)
                /\ Elements(c)[log[k].tx.id].type = log[k].tx.attrs.type

\* Both users added an element (a circle by the first, an element of the
\* second color by the second) and all of it has been delivered.
C4_Witness ==
    /\ Quiescent
    /\ Len(log) = 3
    /\ \E i, j \in DOMAIN Store :
          /\ i # j
          /\ Store[i].type = "circle"
          /\ Store[j].type = "rectangle"
          /\ Store[j].color = COLORS[2]
          /\ \A c \in Clients : {i, j} \subseteq DOMAIN Elements(c)

\* ---------------------------------------------------------------- C5
\* C5: the start of a pan and every update of it issue no transaction; the
\* end of it issues exactly one, a move to the element's position plus the
\* final translation.
C5_OneWritePerDrag ==
    [][ \A c \in Clients :
          /\ PanStartsOrUpdates(c) =>
                pending' = pending /\ issued' = issued /\ log' = log
          /\ PanEnds(c) =>
                /\ issued' = issued + 1
                /\ pending'[c] = Append(pending[c],
                      [tx |-> MoveTx(dragging[c],
                                 Elements(c)[dragging[c]].x + translate[c][1],
                                 Elements(c)[dragging[c]].y + translate[c][2]),
                       at |-> 0])
                /\ \A d \in Clients \ {c} : pending'[d] = pending[d] ]_vars

\* A pan ended: the client is no longer dragging and its last transaction is
\* an unsent move.
C5_Witness ==
    \E c \in Clients :
        /\ dragging[c] = NoId
        /\ pending[c] # <<>>
        /\ Last(pending[c]).tx.src = "move"
        /\ Last(pending[c]).at = 0
        /\ Last(pending[c]).tx.attrs.x = 10

MoveFails(c) ==
    /\ Rejects(c)
    /\ FirstUnsent(c) # 0
    /\ pending[c][FirstUnsent(c)].tx.src = "move"

C8_NoUnhandledRejection ==
    \A c \in Clients : unhandled[c] = 0

MoveOnlyMoves(old, new, e) ==
    /\ DOMAIN new = DOMAIN old \cup {e}
    /\ \A i \in DOMAIN old \ {e} : new[i] = old[i]
    /\ e \in DOMAIN old =>
          /\ DOMAIN new[e] = DOMAIN old[e] \cup {"x", "y"}
          /\ \A a \in DOMAIN old[e] \ {"x", "y"} : new[e][a] = old[e][a]
    /\ e \notin DOMAIN old => DOMAIN new[e] = {"x", "y"}

\* C10: an element keeps its type from one store state to the next; a move
\* applied by the store, or issued on a client's view, changes only x and y
\* of its element and nothing of any other element.
C10_MoveKeepsType ==
    [][ /\ Applies =>
            \A i \in DOMAIN Store \cap DOMAIN Store' :
               ("type" \in DOMAIN Store[i]) =>
                  /\ "type" \in DOMAIN Store'[i]
                  /\ Store'[i].type = Store[i].type
        /\ (Applies /\ Last(log').tx.src = "move") =>
               MoveOnlyMoves(Store, Store', Last(log').tx.id)
        /\ \A c \in Clients :
              (Issues(c) /\ Last(pending'[c]).tx.src = "move") =>
                 MoveOnlyMoves(Elements(c), Elements(c)',
                               Last(pending'[c]).tx.id) ]_vars

\* The store applied a move to a circle that was already there.
C10_Witness ==
    /\ Len(log) >= 3
    /\ Last(log).tx.src = "move"
    /\ Last(log).tx.id \in DOMAIN log[Len(log) - 1].st
    /\ Store[Last(log).tx.id].type = "circle"
    /\ Store[Last(log).tx.id].x = 5

====
